---------------------------- MODULE Spec2Model ----------------------------
(***************************************************************************)
(* Model of the virtual CPU of src/src/main.rs: the register map, the     *)
(* data/bss/text sections of the loaded Program, the program counter, the *)
(* flags, and the operations fetch, execute, mov, run and stop.            *)
(*                                                                         *)
(* Conventions.                                                            *)
(*  - A Register value is [tag, lanes]: the enum variant and its u8       *)
(*    payload, lanes[1] being the first field of the variant.              *)
(*  - A Data value is [w, v]: the variant (Byte/Word/Dword) and the       *)
(*    unsigned payload.  Payloads stay below 2^31 (the checker's integer  *)
(*    range); lanes are bytes, so register contents cover all of u32.     *)
(*  - text_section is a TLA+ sequence (1-based); the code's 0-based index *)
(*    i is element i+1, see At.                                            *)
(*  - A Rust panic ends the process: mode = "panicked", fault names it.   *)
(*  - CPU.stack is never read or written by any method, and load_program  *)
(*    is never called: both are left out.  println! output is not state.  *)
(***************************************************************************)
EXTENDS Integers, Sequences, FiniteSets, TLC

(***************************************************************************)
(* Bounds of the model.                                                    *)
(***************************************************************************)
MaxLen == 3

(***************************************************************************)
(* Data (src/src/main.rs:114-129).                                         *)
(***************************************************************************)
Byte(x) == [w |-> "Byte", v |-> x]
Word(x) == [w |-> "Word", v |-> x]
Dword(x) == [w |-> "Dword", v |-> x]

\* Data::get_value: the payload widened to usize.
get_value(data) == data.v

\* Width in bytes of a Data variant.
WidthOf(w) == CASE w = "Byte" -> 1 [] w = "Word" -> 2 [] w = "Dword" -> 4

Pow256(n) == CASE n = 1 -> 256 [] n = 2 -> 65536

\* uN::to_le_bytes: the n little-endian bytes of x (bytes[0] is element 1).
to_le_bytes(x, n) ==
    CASE n = 1 -> <<x % 256>>
      [] n = 2 -> <<x % 256, (x \div 256) % 256>>
      [] n = 4 -> <<x % 256, (x \div 256) % 256, (x \div 65536) % 256,
                    (x \div 16777216) % 256>>

\* A cast that keeps every bit of the value, whatever the width.
CastToNothing(x, n) == x

\* `x as uN` / `(x & mask) as uN`: the value reduced to n bytes.
CastTo(x, n) == IF n = 4 THEN x ELSE x % Pow256(n)

(***************************************************************************)
(* Register (src/src/main.rs:15-25) and the register map of CPU::new.      *)
(***************************************************************************)
Reg16 == {"AX", "BX", "CX", "DX"}
Reg32 == {"EAX", "EBX", "ECX", "EDX"}
RegNames == Reg16 \cup Reg32

\* A variant of enum Register with its payload.
Variant(tag, lanes) == [tag |-> tag, lanes |-> lanes]

\* The zeroed variant inserted by CPU::new and by the register moves.
ZeroOf(tag) == IF tag \in Reg16 THEN Variant(tag, <<0, 0>>) ELSE Variant(tag, <<0, 0, 0, 0>>)

(***************************************************************************)
(* Operand (src/src/main.rs:107-112) and Instruction (91-105).  The        *)
(* payload of a Register operand is never read by the code (every pattern  *)
(* is Register::X(_, _)), so the operand carries the variant alone.        *)
(***************************************************************************)
NoData == [w |-> "None", v |-> 0]
OpReg(r) == [kind |-> "Register", reg |-> r, label |-> "", data |-> NoData]
OpMem(l) == [kind |-> "Memory", reg |-> "", label |-> l, data |-> NoData]
OpImm(d) == [kind |-> "Immediate", reg |-> "", label |-> "", data |-> d]

Instr(opcode, operands) == [opcode |-> opcode, operands |-> operands]
Mov(d, s) == Instr("Mov", <<d, s>>)
Add(d, s) == Instr("Add", <<d, s>>)
Sub(d, s) == Instr("Sub", <<d, s>>)

\* Option<Instruction>::None.
NoInstr == Instr("None", <<>>)


(***************************************************************************)
(* CPU::mov, destination Register / source Register (main.rs:219-602).    *)
(* HashMap::insert returns the value the key held; `if let` on a variant  *)
(* that is not the one stored under the key skips its block.               *)
(***************************************************************************)
\* Arms 32-bit <- 16-bit (main.rs:397-578): the key read back with get(), the
\* variant its pattern expects, the variant built, and the key inserted.  Three
\* arms do not name the destination: EAX<-BX (405-412), EBX<-BX (455-462),
\* ECX<-CX (513-520).
WideArm(d, s) ==
    CASE d = "EAX" /\ s = "BX" -> [get |-> "ECX", pat |-> "ECX", new |-> "ECX", ins |-> "ECX"]
      [] d = "EBX" /\ s = "BX" -> [get |-> "EDX", pat |-> "EDX", new |-> "EDX", ins |-> "EDX"]
      [] d = "ECX" /\ s = "CX" -> [get |-> "ECX", pat |-> "EDX", new |-> "ECX", ins |-> "EDX"]
      [] OTHER -> [get |-> d, pat |-> d, new |-> d, ins |-> d]

\* 16-bit <- 16-bit (main.rs:221-232, 265-276, 309-320, 353-364): the source
\* key is overwritten with a zero variant and the value it held is inserted,
\* variant and all, under the destination key.
MovNarrowNarrow(regs, d, s) ==
    LET old == regs[s]
    IN  [regs EXCEPT ![s] = ZeroOf(s), ![d] = old]

\* 16-bit <- 32-bit (main.rs:233-264, 277-308, 321-352, 365-396).
MovNarrowWide(regs, d, s) ==
    IF regs[s].tag = s
    THEN LET l == regs[s].lanes
         IN  [regs EXCEPT ![s] = Variant(s, <<0, 0, l[3], l[4]>>),
                          ![d] = Variant(d, <<l[1], l[2]>>)]
    ELSE regs

\* 32-bit <- 16-bit (main.rs:397-428, 447-478, 497-528, 547-578).
MovWideNarrow(regs, d, s) ==
    LET old == regs[s]
        cleared == [regs EXCEPT ![s] = ZeroOf(s)]
        arm == WideArm(d, s)
    IN  IF old.tag = s /\ cleared[arm.get].tag = arm.pat
        THEN [cleared EXCEPT ![arm.ins] =
                 Variant(arm.new, <<old.lanes[1], old.lanes[2],
                                    cleared[arm.get].lanes[3], cleared[arm.get].lanes[4]>>)]
        ELSE cleared

\* 32-bit <- 32-bit (main.rs:429-446, 479-496, 529-546, 579-596).
MovWideWide(regs, d, s) ==
    LET old == regs[s]
        cleared == [regs EXCEPT ![s] = ZeroOf(s)]
    IN  IF old.tag = s
        THEN [cleared EXCEPT ![d] = Variant(d, old.lanes)]
        ELSE cleared

\* The inner match without its `_` arm: a pair with equal variants is moved
\* like any other pair, which clears the source after the copy.
MovRegisterRegisterNoSkip(regs, d, s) ==
    CASE d = s -> [regs EXCEPT ![d] = ZeroOf(d)]
      [] d # s /\ d \in Reg16 /\ s \in Reg16 -> MovNarrowNarrow(regs, d, s)
      [] d # s /\ d \in Reg16 /\ s \in Reg32 -> MovNarrowWide(regs, d, s)
      [] d # s /\ d \in Reg32 /\ s \in Reg16 -> MovWideNarrow(regs, d, s)
      [] d # s /\ d \in Reg32 /\ s \in Reg32 -> MovWideWide(regs, d, s)

\* The inner match of the Register/Register arm; `_` (main.rs:597-600) is the
\* eight pairs with equal variants.
MovRegisterRegister(regs, d, s) ==
    CASE d = s -> regs
      [] d # s /\ d \in Reg16 /\ s \in Reg16 -> MovNarrowNarrow(regs, d, s)
      [] d # s /\ d \in Reg16 /\ s \in Reg32 -> MovNarrowWide(regs, d, s)
      [] d # s /\ d \in Reg32 /\ s \in Reg16 -> MovWideNarrow(regs, d, s)
      [] d # s /\ d \in Reg32 /\ s \in Reg32 -> MovWideWide(regs, d, s)

\* A lane write that zero-extends: a Byte or a Word into a 32-bit register
\* clears the lanes above it instead of keeping them.
WriteLanesZeroExtended(held, r, data, byteLane) ==
    IF held.tag # r
    THEN held
    ELSE LET l == held.lanes
         IN  CASE data.w = "Byte" ->
                    IF r \in Reg16
                    THEN Variant(r, [l EXCEPT ![byteLane] = data.v])
                    ELSE Variant(r, <<data.v, 0, 0, 0>>)
               [] data.w = "Word" ->
                    LET bytes == to_le_bytes(data.v, 2)
                    IN  IF r \in Reg16
                        THEN Variant(r, bytes)
                        ELSE Variant(r, <<bytes[1], bytes[2], 0, 0>>)
               [] data.w = "Dword" ->
                    LET bytes == to_le_bytes(data.v, 4)
                    IN  IF r \in Reg16
                        THEN Variant(r, [l EXCEPT ![1] = bytes[1], ![2] = bytes[2]])
                        ELSE Variant(r, bytes)

(***************************************************************************)
(* Writing a Data value into the lanes of the register stored under key r *)
(* (the `if let Register::R(..) = get_mut(r)` blocks of main.rs:628-649,  *)
(* 746-768, 868-889, 964-986, 1091-1106, 1193-1209).  byteLane is the     *)
(* lane a Byte goes to in a 16-bit register: the arm's choice.             *)
(***************************************************************************)
WriteLanes(held, r, data, byteLane) ==
    IF held.tag # r
    THEN held
    ELSE LET l == held.lanes
         IN  CASE data.w = "Byte" ->
                    Variant(r, [l EXCEPT ![IF r \in Reg16 THEN byteLane ELSE 1] = data.v])
               [] data.w = "Word" ->
                    LET bytes == to_le_bytes(data.v, 2)
                    IN  Variant(r, [l EXCEPT ![1] = bytes[1], ![2] = bytes[2]])
               [] data.w = "Dword" ->
                    LET bytes == to_le_bytes(data.v, 4)
                    IN  IF r \in Reg16
                        THEN Variant(r, [l EXCEPT ![1] = bytes[1], ![2] = bytes[2]])
                        ELSE Variant(r, bytes)

\* The label check shared by the three memory arms (main.rs:604-619,
\* 1066-1081, 1293-1308).
Declared(data, bss, label) == label \in DOMAIN data \/ label \in DOMAIN bss

\* Mutant of Uninitialized: the check is left out.
UninitializedNever(cell) == FALSE

\* The use-of-uninitialized check `data.get_value() == 0` (main.rs:623, 653,
\* 682, 712, 741, 772, 803, 834, 1087, ...).
Uninitialized(cell) == get_value(cell) = 0

\* destination Register / source Memory (main.rs:603-864).  The cell is looked
\* up in data_section alone and unwrapped; a Byte goes to the second lane of
\* a 16-bit register (main.rs:630-631).
MovRegisterMemory(regs, data, bss, r, label) ==
    IF ~Declared(data, bss, label)
    THEN [registers |-> regs, fault |-> "undeclared"]
    ELSE IF label \notin DOMAIN data
    THEN [registers |-> regs, fault |-> "unwrap_none"]
    ELSE IF Uninitialized(data[label])
    THEN [registers |-> regs, fault |-> "uninitialized"]
    ELSE [registers |-> [regs EXCEPT ![r] = WriteLanes(regs[r], r, data[label], 2)],
          fault |-> ""]

\* An immediate load that keeps a family in step: the lanes written to a
\* 16-bit register are written to the low lanes of its 32-bit counterpart too.
MovRegisterImmediateAliased(regs, r, value) ==
    LET wide == CASE r = "AX" -> "EAX" [] r = "BX" -> "EBX" [] r = "CX" -> "ECX"
                  [] r = "DX" -> "EDX" [] OTHER -> r
        narrow == WriteLanes(regs[r], r, value, 1)
    IN  IF r \in Reg16
        THEN [regs EXCEPT ![r] = narrow,
                          ![wide] = Variant(wide, <<narrow.lanes[1], narrow.lanes[2],
                                                    regs[wide].lanes[3], regs[wide].lanes[4]>>)]
        ELSE [regs EXCEPT ![r] = narrow]

\* destination Register / source Immediate (main.rs:865-1064).
MovRegisterImmediate(regs, r, value) ==
    [regs EXCEPT ![r] = WriteLanes(regs[r], r, value, 1)]

\* destination Memory / source Register (main.rs:1065-1291).  The arm reads
\* the cell and writes the register; the lookup and the check sit inside the
\* `if let` on the register's variant.
MovMemoryRegister(regs, data, bss, label, r) ==
    IF ~Declared(data, bss, label)
    THEN [registers |-> regs, fault |-> "undeclared"]
    ELSE IF regs[r].tag # r
    THEN [registers |-> regs, fault |-> ""]
    ELSE IF label \notin DOMAIN data
    THEN [registers |-> regs, fault |-> "unwrap_none"]
    ELSE IF Uninitialized(data[label])
    THEN [registers |-> regs, fault |-> "uninitialized"]
    ELSE [registers |-> [regs EXCEPT ![r] = WriteLanes(regs[r], r, data[label], 1)],
          fault |-> ""]

\* destination Memory / source Immediate (main.rs:1292-1363).  Only a
\* data_section entry is written (`if let Some(..) = data_section.get_mut`);
\* the cell keeps its variant and takes the value cast to its width.  wrote
\* is the set of cells assigned.
MovMemoryImmediate(data, bss, label, value) ==
    IF ~Declared(data, bss, label)
    THEN [data_section |-> data, wrote |-> {}, fault |-> "undeclared"]
    ELSE IF label \in DOMAIN data
    THEN [data_section |->
             [data EXCEPT ![label] =
                 [w |-> data[label].w, v |-> CastTo(value.v, WidthOf(data[label].w))]],
          wrote |-> {label}, fault |-> ""]
    ELSE [data_section |-> data, wrote |-> {}, fault |-> ""]

\* CPU::mov (main.rs:217-1370): the outer match on (destination, source).
mov(regs, data, bss, source, destination) ==
    CASE destination.kind = "Register" /\ source.kind = "Register" ->
            [registers |-> MovRegisterRegister(regs, destination.reg, source.reg),
             data_section |-> data, wrote |-> {}, fault |-> ""]
      [] destination.kind = "Register" /\ source.kind = "Memory" ->
            LET r == MovRegisterMemory(regs, data, bss, destination.reg, source.label)
            IN  [registers |-> r.registers, data_section |-> data, wrote |-> {},
                 fault |-> r.fault]
      [] destination.kind = "Register" /\ source.kind = "Immediate" ->
            [registers |-> MovRegisterImmediate(regs, destination.reg, source.data),
             data_section |-> data, wrote |-> {}, fault |-> ""]
      [] destination.kind = "Memory" /\ source.kind = "Register" ->
            LET r == MovMemoryRegister(regs, data, bss, destination.label, source.reg)
            IN  [registers |-> r.registers, data_section |-> data, wrote |-> {},
                 fault |-> r.fault]
      [] destination.kind = "Memory" /\ source.kind = "Immediate" ->
            LET r == MovMemoryImmediate(data, bss, destination.label, source.data)
            IN  [registers |-> regs, data_section |-> r.data_section, wrote |-> r.wrote,
                 fault |-> r.fault]
      [] OTHER ->
            [registers |-> regs, data_section |-> data, wrote |-> {}, fault |-> ""]

(***************************************************************************)
(* The state of a CPU (main.rs:138-144) and of the driver around it.       *)
(***************************************************************************)
VARIABLES
    registers,        \* CPU.registers: key -> Register variant
    data_section,     \* CPU.memory.data_section: label -> Data
    bss_section,      \* CPU.memory.bss_section: label -> Data
    text_section,     \* CPU.memory.text_section: the instruction list
    program_counter,  \* CPU.program_counter
    flags,            \* CPU.flags
    mode,             \* "idle": between calls; "running": inside run(); "panicked"
    fault,            \* cause of the panic, "" while there is none
    instruction,      \* the local `instruction` of the last execute(), or NoInstr
    fetched,          \* history: the indices fetch() has used on text_section
    before,           \* history: the CPU state when the last execute() began,
                      \* and the registers when the one before it began
    last,             \* history: the last call that acted: new/execute/run/stop
    written,          \* history: the data cells a Mov has assigned so far
    direct            \* history: the driver has called execute() or stop() itself

vars == <<registers, data_section, bss_section, text_section, program_counter, flags,
          mode, fault, instruction, fetched, before, last, written, direct>>

\* The element of a Vec at a 0-based index.
At(vec, i) == vec[i + 1]

\* A fetch whose bounds test does not return early: the counter is advanced
\* even when it has reached the instruction count.
fetchPastEnd(pc, text) ==
    IF pc >= Len(text)
    THEN [program_counter |-> pc + 1, instruction |-> NoInstr, index |-> -1, fault |-> ""]
    ELSE LET index == pc + 1
         IN  IF index >= Len(text)
             THEN [program_counter |-> pc + 1, instruction |-> NoInstr, index |-> index,
                   fault |-> "text_index_out_of_bounds"]
             ELSE [program_counter |-> pc + 1, instruction |-> At(text, index),
                   index |-> index, fault |-> ""]

\* CPU::fetch (main.rs:194-201): the counter is advanced first and the
\* advanced value indexes the text section; Vec indexing panics when the
\* index is not below the length.
fetch(pc, text) ==
    IF pc >= Len(text)
    THEN [program_counter |-> pc, instruction |-> NoInstr, index |-> -1, fault |-> ""]
    ELSE LET index == pc + 1
         IN  IF index >= Len(text)
             THEN [program_counter |-> pc + 1, instruction |-> NoInstr, index |-> index,
                   fault |-> "text_index_out_of_bounds"]
             ELSE [program_counter |-> pc + 1, instruction |-> At(text, index),
                   index |-> index, fault |-> ""]

\* The arms of the opcode match of CPU::execute (main.rs:1381-1533) on a
\* fetched instruction: Mov takes operands.get(0) and get(1) and returns
\* when one is missing; Add and Sub index operands[0] and operands[1] and have
\* empty arms; every other opcode prints a message.
decode(regs, data, bss, instr) ==
    CASE instr.opcode = "Mov" ->
            IF Len(instr.operands) >= 2
            THEN mov(regs, data, bss, instr.operands[2], instr.operands[1])
            ELSE [registers |-> regs, data_section |-> data, wrote |-> {}, fault |-> ""]
      [] instr.opcode \in {"Add", "Sub"} ->
            IF Len(instr.operands) >= 2
            THEN [registers |-> regs, data_section |-> data, wrote |-> {}, fault |-> ""]
            ELSE [registers |-> regs, data_section |-> data, wrote |-> {},
                  fault |-> "operand_index_out_of_bounds"]
      [] OTHER ->
            [registers |-> regs, data_section |-> data, wrote |-> {}, fault |-> ""]

\* An execute() that sets the zero flag after a Mov that leaves its
\* destination register with every lane zero.
executeFlaggingZero ==
    LET f == fetch(program_counter, text_section)
    IN  IF f.instruction = NoInstr
        THEN [program_counter |-> f.program_counter, registers |-> registers,
              data_section |-> data_section, flags |-> flags, wrote |-> {},
              text_section |-> text_section,
              instruction |-> NoInstr, index |-> f.index, fault |-> f.fault]
        ELSE LET d == decode(registers, data_section, bss_section, f.instruction)
                 ops == f.instruction.operands
                 zeroed == /\ f.instruction.opcode = "Mov"
                           /\ Len(ops) >= 2
                           /\ ops[1].kind = "Register"
                           /\ d.registers[ops[1].reg].lanes = ZeroOf(ops[1].reg).lanes
             IN  [program_counter |-> f.program_counter, registers |-> d.registers,
                  data_section |-> d.data_section,
                  flags |-> IF zeroed THEN [flags EXCEPT !.zero = TRUE] ELSE flags,
                  text_section |-> text_section,
                  wrote |-> d.wrote, instruction |-> f.instruction,
                  index |-> f.index, fault |-> d.fault]

\* An execute() whose fetch moves the instruction out of the text section
\* instead of cloning it, leaving an empty instruction in its place.
executeTakingInstruction ==
    LET f == fetch(program_counter, text_section)
    IN  IF f.instruction = NoInstr
        THEN [program_counter |-> f.program_counter, registers |-> registers,
              data_section |-> data_section, flags |-> flags, wrote |-> {},
              text_section |-> text_section,
              instruction |-> NoInstr, index |-> f.index, fault |-> f.fault]
        ELSE LET d == decode(registers, data_section, bss_section, f.instruction)
             IN  [program_counter |-> f.program_counter, registers |-> d.registers,
                  data_section |-> d.data_section, flags |-> flags, wrote |-> d.wrote,
                  text_section |-> [text_section EXCEPT ![f.index + 1] = NoInstr],
                  instruction |-> f.instruction,
                  index |-> f.index, fault |-> d.fault]

\* CPU::execute (main.rs:1372-1535) on the current state: the state it leaves.
\* No statement of execute() or mov() assigns a field of self.flags.
execute ==
    LET f == fetch(program_counter, text_section)
    IN  IF f.instruction = NoInstr
        THEN [program_counter |-> f.program_counter, registers |-> registers,
              data_section |-> data_section, flags |-> flags, wrote |-> {},
              text_section |-> text_section,
              instruction |-> NoInstr, index |-> f.index, fault |-> f.fault]
        ELSE LET d == decode(registers, data_section, bss_section, f.instruction)
             IN  [program_counter |-> f.program_counter, registers |-> d.registers,
                  data_section |-> d.data_section, flags |-> flags, wrote |-> d.wrote,
                  text_section |-> text_section,
                  instruction |-> f.instruction,
                  index |-> f.index, fault |-> d.fault]

\* The assignments one call of execute() makes; `next` is the mode when it
\* returns.
Executes(next) ==
    LET e == execute
    IN  /\ program_counter' = e.program_counter
        /\ registers' = e.registers
        /\ data_section' = e.data_section
        /\ instruction' = e.instruction
        /\ fetched' = IF e.index >= 0 THEN Append(fetched, e.index) ELSE fetched
        /\ fault' = e.fault
        /\ mode' = IF e.fault # "" THEN "panicked"
                   ELSE IF next = "loop"
                   THEN (IF e.program_counter >= Len(text_section) THEN "idle" ELSE "running")
                   ELSE next
        /\ before' = [registers |-> registers, data_section |-> data_section,
                      flags |-> flags, program_counter |-> program_counter,
                      earlier |-> before.registers]
        /\ last' = "execute"
        /\ written' = written \cup e.wrote
        /\ flags' = e.flags
        /\ text_section' = e.text_section
        /\ UNCHANGED bss_section

\* The driver calls cpu.run() (main.rs:203, 1604).
RunCall ==
    /\ mode = "idle"
    /\ mode' = "running"
    /\ last' = "run"
    /\ UNCHANGED <<registers, data_section, bss_section, text_section, program_counter,
                   flags, fault, instruction, fetched, before, written, direct>>

\* One iteration of the loop of CPU::run (main.rs:204-210): execute(), then
\* break when the counter has reached the instruction count.
RunLoop ==
    /\ mode = "running"
    /\ Executes("loop")
    /\ UNCHANGED direct

\* The driver calls cpu.execute() itself.
ExecuteCall ==
    /\ mode = "idle"
    /\ Executes("idle")
    /\ direct' = TRUE

\* A stop() that is one short: the counter is set to the index of the last
\* instruction instead of the instruction count.
stopAtLast ==
    /\ mode = "idle"
    /\ program_counter' = IF Len(text_section) > 0 THEN Len(text_section) - 1 ELSE 0
    /\ last' = "stop"
    /\ direct' = TRUE
    /\ UNCHANGED <<registers, data_section, bss_section, text_section, flags, mode,
                   fault, instruction, fetched, before, written>>

\* A stop() that rewinds: the counter is set to 0 instead of the
\* instruction count.
stopAtStart ==
    /\ mode = "idle"
    /\ program_counter' = 0
    /\ last' = "stop"
    /\ direct' = TRUE
    /\ UNCHANGED <<registers, data_section, bss_section, text_section, flags, mode,
                   fault, instruction, fetched, before, written>>

\* CPU::stop (main.rs:213-215).
stop ==
    /\ mode = "idle"
    /\ program_counter' = Len(text_section)
    /\ last' = "stop"
    /\ direct' = TRUE
    /\ UNCHANGED <<registers, data_section, bss_section, text_section, flags, mode,
                   fault, instruction, fetched, before, written>>

Next == RunCall \/ RunLoop \/ ExecuteCall \/ stop

(***************************************************************************)
(* Programs.  The data and bss sections are those of main (main.rs:        *)
(* 1540-1548) with three more data cells: a Word, a Dword and a cell whose *)
(* value is zero.  NoLabel is declared in neither section.                 *)
(***************************************************************************)
DataSection ==
    [l \in {"num1", "num2", "num", "big", "zero"} |->
        CASE l = "num1" -> Byte(23)
          [] l = "num2" -> Word(300)
          [] l = "num" -> Word(10)
          [] l = "big" -> Dword(305419896)
          [] l = "zero" -> Word(0)]

BssSection ==
    [l \in {"result", "test"} |->
        CASE l = "result" -> Word(0)
          [] l = "test" -> Dword(0)]

NoLabel == "nolabel"

\* Every instruction list of at most n instructions drawn from pool.
Programs(pool, n) == UNION {[1..k -> pool] : k \in 0..n}

\* The instruction lists of at most n instructions whose instruction at index
\* 0, the one fetch never returns (main.rs:199-200), is a given one.
ProgramsAfter(first, pool, n) ==
    {<<>>} \cup {<<first>> \o rest : rest \in Programs(pool, n - 1)}

\* A constructor that leaves AX with every bit set.
newUncleared(program) ==
    /\ registers = [r \in RegNames |-> IF r = "AX" THEN Variant("AX", <<255, 255>>) ELSE ZeroOf(r)]
    /\ data_section = program.data_section
    /\ bss_section = program.bss_section
    /\ text_section = program.text_section
    /\ program_counter = 0
    /\ flags = [carry |-> FALSE, zero |-> FALSE, interrupt |-> FALSE, sign |-> FALSE,
                overflow |-> FALSE, parity |-> FALSE]
    /\ mode = "idle"
    /\ fault = ""
    /\ instruction = NoInstr
    /\ fetched = <<>>
    /\ before = [registers |-> [r \in RegNames |-> ZeroOf(r)],
                 data_section |-> program.data_section,
                 flags |-> [carry |-> FALSE, zero |-> FALSE, interrupt |-> FALSE,
                            sign |-> FALSE, overflow |-> FALSE, parity |-> FALSE],
                 program_counter |-> 0,
                 earlier |-> [r \in RegNames |-> ZeroOf(r)]]
    /\ last = "new"
    /\ written = {}
    /\ direct = FALSE

\* CPU::new (main.rs:160-177) on a Program.
new(program) ==
    /\ registers = [r \in RegNames |-> ZeroOf(r)]
    /\ data_section = program.data_section
    /\ bss_section = program.bss_section
    /\ text_section = program.text_section
    /\ program_counter = 0
    /\ flags = [carry |-> FALSE, zero |-> FALSE, interrupt |-> FALSE, sign |-> FALSE,
                overflow |-> FALSE, parity |-> FALSE]
    /\ mode = "idle"
    /\ fault = ""
    /\ instruction = NoInstr
    /\ fetched = <<>>
    /\ before = [registers |-> [r \in RegNames |-> ZeroOf(r)],
                 data_section |-> program.data_section,
                 flags |-> [carry |-> FALSE, zero |-> FALSE, interrupt |-> FALSE,
                            sign |-> FALSE, overflow |-> FALSE, parity |-> FALSE],
                 program_counter |-> 0,
                 earlier |-> [r \in RegNames |-> ZeroOf(r)]]
    /\ last = "new"
    /\ written = {}
    /\ direct = FALSE

Program(text) ==
    [data_section |-> DataSection, bss_section |-> BssSection, text_section |-> text]

\* The end-to-end program of the specification, section 8.
EndToEnd ==
    << Mov(OpReg("AX"), OpImm(Word(300))),
       Mov(OpReg("BX"), OpMem("num")),
       Add(OpReg("CX"), OpReg("AX")),
       Sub(OpReg("CX"), OpReg("BX")),
       Mov(OpMem("result"), OpReg("CX")) >>

\* The text section main builds (main.rs:1550-1593).
MainProgram ==
    << Mov(OpReg("AX"), OpImm(Byte(23))),
       Mov(OpReg("BX"), OpReg("AX")),
       Mov(OpMem("num1"), OpImm(Dword(0))),
       Mov(OpMem("num2"), OpImm(Byte(0))),
       Mov(OpReg("EAX"), OpReg("BX")),
       Mov(OpMem("result"), OpReg("EAX")) >>

\* Instructions of the core specification: immediates into registers,
\* memory in both directions, Add and Sub, declared and undeclared labels.
CorePool ==
    { Mov(OpReg("AX"), OpImm(Word(300))),
      Mov(OpReg("EAX"), OpImm(Dword(305419896))),
      Mov(OpReg("BX"), OpMem("num")),
      Mov(OpReg("BX"), OpReg("AX")),
      Mov(OpMem("num"), OpReg("AX")),
      Mov(OpReg("AX"), OpMem(NoLabel)),
      Mov(OpMem(NoLabel), OpReg("AX")),
      Mov(OpMem(NoLabel), OpImm(Byte(1))),
      Add(OpReg("AX"), OpReg("BX")),
      Sub(OpReg("EAX"), OpImm(Byte(1))),
      Add(OpReg("AX"), OpMem(NoLabel)),
      Sub(OpMem(NoLabel), OpReg("AX")) }

Init ==
    \E text \in Programs(CorePool, MaxLen) \cup {EndToEnd, MainProgram} : new(Program(text))

Spec == Init /\ [][Next]_vars

\* Instructions of the memory-read specification: a read of the zero-valued
\* data cell into each of the eight registers, moves that give a register a
\* value or another variant first, and writes of the cell.
ReadPool ==
    { Mov(OpReg(r), OpMem("zero")) : r \in RegNames } \cup
    { Mov(OpReg("AX"), OpImm(Word(300))),
      Mov(OpReg("AX"), OpReg("BX")),
      Mov(OpMem("zero"), OpImm(Byte(5))),
      Mov(OpMem("zero"), OpImm(Byte(0))) }

ReadInit == \E text \in Programs(ReadPool, MaxLen) : new(Program(text))

ReadSpec == ReadInit /\ [][Next]_vars

\* The 32-bit counterpart of a 16-bit register.
Extended(r) ==
    CASE r = "AX" -> "EAX" [] r = "BX" -> "EBX" [] r = "CX" -> "ECX" [] r = "DX" -> "EDX"

\* Instructions of the memory-write specification: immediates and registers
\* into a label of the uninitialized section and into data cells of each
\* width, and the reads that show what a cell holds afterwards.
StorePool ==
    { Mov(OpMem("result"), OpImm(Word(300))),
      Mov(OpMem("result"), OpReg("AX")),
      Mov(OpMem("test"), OpImm(Byte(5))),
      Mov(OpMem("test"), OpReg("EAX")),
      Mov(OpMem("num1"), OpImm(Dword(305419896))),
      Mov(OpMem("num2"), OpImm(Byte(5))),
      Mov(OpMem("big"), OpImm(Word(300))),
      Mov(OpMem("num2"), OpReg("AX")),
      Mov(OpReg("AX"), OpImm(Word(300))),
      Mov(OpReg("EAX"), OpImm(Dword(305419896))),
      Mov(OpReg("BX"), OpMem("num2")),
      Mov(OpReg("BX"), OpMem("result")) }

StoreInit == \E text \in Programs(StorePool, MaxLen) : new(Program(text))

StoreSpec == StoreInit /\ [][Next]_vars

\* Instructions of the register-move specification: the self-move of each of
\* the eight registers, a Dword immediate and a Dword cell into registers of
\* both widths, and a 16-bit move that leaves another variant under its key.
MovePool ==
    { Mov(OpReg(r), OpReg(r)) : r \in RegNames } \cup
    { Mov(OpReg("AX"), OpImm(Dword(305419896))),
      Mov(OpReg("BX"), OpMem("big")),
      Mov(OpReg("EAX"), OpImm(Dword(305419896))),
      Mov(OpReg("ECX"), OpMem("big")),
      Mov(OpReg("AX"), OpReg("BX")) }

MoveInit == \E text \in Programs(MovePool, MaxLen) : new(Program(text))

MoveSpec == MoveInit /\ [][Next]_vars

\* Instructions of the malformed-instruction specification: the operand-kind
\* pairs no instruction allows, operand lists of one and of three operands,
\* two opcodes execute() has no arm for, and two well-formed instructions.
RejectPool ==
    { Mov(OpMem("num"), OpMem("num2")),
      Mov(OpImm(Byte(1)), OpReg("AX")),
      Add(OpMem("num"), OpMem("num2")),
      Sub(OpImm(Byte(1)), OpReg("AX")),
      Instr("Mov", <<OpReg("AX")>>),
      Instr("Mov", <<OpReg("BX"), OpImm(Word(300)), OpReg("CX")>>),
      Instr("Add", <<OpReg("AX")>>),
      Instr("Sub", <<OpReg("AX"), OpReg("BX"), OpReg("CX")>>),
      Instr("Mul", <<OpReg("AX"), OpReg("BX")>>),
      Instr("Ret", <<>>),
      Mov(OpReg("AX"), OpImm(Word(300))),
      Add(OpReg("AX"), OpReg("BX")) }

RejectInit == \E text \in Programs(RejectPool, MaxLen) : new(Program(text))

RejectSpec == RejectInit /\ [][Next]_vars

\* Instructions of the register-family specification: an immediate into each
\* register, and the moves between a 16-bit register and its 32-bit
\* counterpart, in both directions, for the four families.
FamilyPool ==
    { Mov(OpReg(r), OpImm(Word(300))) : r \in Reg16 } \cup
    { Mov(OpReg(r), OpImm(Dword(305419896))) : r \in Reg32 } \cup
    { Mov(OpReg(Extended(r)), OpReg(r)) : r \in Reg16 } \cup
    { Mov(OpReg(r), OpReg(Extended(r))) : r \in Reg16 }

FamilyInit == \E text \in Programs(FamilyPool, MaxLen) : new(Program(text))

FamilySpec == FamilyInit /\ [][Next]_vars

\* Instructions of the 32-bit load specification: an immediate and a data
\* cell of each width into each of the four 32-bit registers.
WidePool ==
    { Mov(OpReg(r), OpImm(d)) :
          r \in Reg32, d \in {Byte(23), Word(300), Dword(305419896)} } \cup
    { Mov(OpReg(r), OpMem(l)) : r \in Reg32, l \in {"num1", "num2", "big"} }

WideInit ==
    \E text \in ProgramsAfter(Mov(OpReg("EAX"), OpImm(Byte(23))), WidePool, MaxLen) :
        new(Program(text))

WideSpec == WideInit /\ [][Next]_vars

\* Instructions of the cell-write specification: an immediate of each width
\* into a data cell of each width, and three more writes of the Word cell
\* that holds zero and of the Byte cell.
CellPool ==
    { Mov(OpMem(l), OpImm(d)) :
          l \in {"num1", "num2", "big"},
          d \in {Byte(23), Word(300), Dword(305419896)} } \cup
    { Mov(OpMem("zero"), OpImm(Dword(305419896))),
      Mov(OpMem("zero"), OpImm(Byte(5))),
      Mov(OpMem("num1"), OpImm(Word(256))) }

CellInit == \E text \in Programs(CellPool, MaxLen) : new(Program(text))

CellSpec == CellInit /\ [][Next]_vars

\* Instructions of the flag specification: a Mov of each addressing mode,
\* two opcodes execute() has no arm for, Movs with an illegal operand pair
\* or a missing operand, and two instructions that end the run.
FlagPool ==
    { Mov(OpReg("AX"), OpImm(Word(300))),
      Mov(OpReg("BX"), OpMem("num")),
      Mov(OpReg("CX"), OpReg("AX")),
      Mov(OpReg("EAX"), OpReg("ECX")),
      Mov(OpMem("num"), OpReg("DX")),
      Mov(OpMem("num2"), OpImm(Byte(0))),
      Instr("Mul", <<OpReg("AX"), OpReg("BX")>>),
      Instr("Cmp", <<OpReg("AX"), OpImm(Word(300))>>),
      Mov(OpMem("num"), OpMem("num2")),
      Mov(OpImm(Byte(1)), OpReg("AX")),
      Instr("Mov", <<OpReg("AX")>>),
      Mov(OpReg("AX"), OpMem(NoLabel)) }

FlagInit == \E text \in Programs(FlagPool, MaxLen) : new(Program(text))

FlagSpec == FlagInit /\ [][Next]_vars

\* Two registers of the same family: a 16-bit register and its 32-bit
\* counterpart, or a register and itself.
Related(d, s) ==
    \/ d = s
    \/ d \in Reg16 /\ s = Extended(d)
    \/ s \in Reg16 /\ d = Extended(s)

\* Instructions of the register-pair specification: an immediate into each
\* register, and the move between each ordered pair of registers of
\* different families.
PairPool ==
    { Mov(OpReg(r), OpImm(Word(300))) : r \in Reg16 } \cup
    { Mov(OpReg(r), OpImm(Dword(305419896))) : r \in Reg32 } \cup
    { Mov(OpReg(pair[1]), OpReg(pair[2])) :
          pair \in {p \in RegNames \X RegNames : ~Related(p[1], p[2])} }

PairInit ==
    \E text \in ProgramsAfter(Mov(OpReg("AX"), OpImm(Word(300))), PairPool, MaxLen) :
        new(Program(text))

PairSpec == PairInit /\ [][Next]_vars

\* Instructions of the byte-load specification: the Byte cell, a Byte
\* immediate of the same value and a Word immediate into each 16-bit
\* register.
BytePool ==
    { Mov(OpReg(r), OpMem("num1")) : r \in Reg16 } \cup
    { Mov(OpReg(r), OpImm(Byte(23))) : r \in Reg16 } \cup
    { Mov(OpReg(r), OpImm(Word(300))) : r \in Reg16 }

ByteInit == \E text \in Programs(BytePool, MaxLen) : new(Program(text))

ByteSpec == ByteInit /\ [][Next]_vars

\* Instructions of the move-chain specification: an immediate into AX and
\* into EAX, and moves that pass a value on from register to register,
\* between equal and between different widths.
ChainPool ==
    { Mov(OpReg("AX"), OpImm(Word(300))),
      Mov(OpReg("EAX"), OpImm(Dword(305419896))),
      Mov(OpReg("BX"), OpReg("AX")),
      Mov(OpReg("ECX"), OpReg("BX")),
      Mov(OpReg("CX"), OpReg("BX")),
      Mov(OpReg("EBX"), OpReg("EAX")),
      Mov(OpReg("EDX"), OpReg("EBX")),
      Mov(OpReg("DX"), OpReg("EBX")),
      Mov(OpReg("CX"), OpReg("EAX")),
      Mov(OpReg("EDX"), OpReg("CX")),
      Mov(OpReg("ECX"), OpReg("AX")),
      Mov(OpReg("DX"), OpReg("ECX")) }

ChainInit ==
    \E text \in ProgramsAfter(Mov(OpReg("AX"), OpImm(Word(300))), ChainPool, MaxLen + 1) :
        new(Program(text))

ChainSpec == ChainInit /\ [][Next]_vars

(***************************************************************************)
(* Vocabulary of the claims.                                               *)
(***************************************************************************)
\* The last call that acted was an execute() that fetched an instruction.
Decoded == last = "execute" /\ instruction # NoInstr

\* ... and the instruction has the given opcode and exactly two operands.
DecodedBinary(opcode) ==
    Decoded /\ instruction.opcode = opcode /\ Len(instruction.operands) = 2

Dest == instruction.operands[1]
Src == instruction.operands[2]

\* run() was called on the new CPU and nothing else was.
OnlyRun == ~direct /\ last # "new"

\* ... and it is over: it returned or the process panicked.
RunOver == OnlyRun /\ last = "execute" /\ mode \in {"idle", "panicked"}

\* A declared cell, wherever it is declared.
Cell(data, bss, label) == IF label \in DOMAIN data THEN data[label] ELSE bss[label]

\* The bytes of a cell at its declared width.
CellLanes(cell) == to_le_bytes(cell.v, WidthOf(cell.w))

\* Lanes widened with zeros, or cut, to n lanes.
LanesTo(lanes, n) == [i \in 1..n |-> IF i <= Len(lanes) THEN lanes[i] ELSE 0]

\* The unsigned value of a 16-bit register.
U16(reg) == reg.lanes[1] + 256 * reg.lanes[2]

\* The operand's value as four little-endian bytes, in a given CPU state.
OperandLanes(op, regs, data, bss) ==
    CASE op.kind = "Register" -> LanesTo(regs[op.reg].lanes, 4)
      [] op.kind = "Immediate" -> to_le_bytes(op.data.v, 4)
      [] op.kind = "Memory" -> to_le_bytes(Cell(data, bss, op.label).v, 4)

\* The lanes now held by the location an operand names, at its native width.
LocationLanes(op) ==
    IF op.kind = "Register"
    THEN registers[op.reg].lanes
    ELSE CellLanes(Cell(data_section, bss_section, op.label))

\* Operand-kind pairs section 4.5 of the specification allows.
LegalPair(d, s) ==
    /\ d.kind # "Immediate"
    /\ ~(d.kind = "Memory" /\ s.kind = "Memory")

\* Every Memory operand of the pair names a declared cell.
Resolvable(d, s) ==
    \A op \in {d, s} : op.kind = "Memory" => Declared(data_section, bss_section, op.label)

\* The ALU of section 4.4 of the specification on two 32-bit values given as
\* lanes: wrapping sum and difference, with the overflow output.
AluAdd(a, b) ==
    LET s1 == a[1] + b[1]
        s2 == a[2] + b[2] + (s1 \div 256)
        s3 == a[3] + b[3] + (s2 \div 256)
        s4 == a[4] + b[4] + (s3 \div 256)
    IN  [result |-> <<s1 % 256, s2 % 256, s3 % 256, s4 % 256>>, overflow |-> s4 >= 256]

AluSub(a, b) ==
    LET d1 == a[1] - b[1]
        d2 == a[2] - b[2] - (IF d1 < 0 THEN 1 ELSE 0)
        d3 == a[3] - b[3] - (IF d2 < 0 THEN 1 ELSE 0)
        d4 == a[4] - b[4] - (IF d3 < 0 THEN 1 ELSE 0)
    IN  [result |-> <<d1 % 256, d2 % 256, d3 % 256, d4 % 256>>, overflow |-> d4 < 0]

\* What the ALU returns for the decoded Add or Sub on the state before it.
AluOutcome ==
    LET a == OperandLanes(Dest, before.registers, before.data_section, bss_section)
        b == OperandLanes(Src, before.registers, before.data_section, bss_section)
    IN  IF instruction.opcode = "Add" THEN AluAdd(a, b) ELSE AluSub(a, b)

\* An Add or Sub with a legal, resolvable operand pair has been decoded.
DecodedArithmetic ==
    /\ DecodedBinary("Add") \/ DecodedBinary("Sub")
    /\ LegalPair(Dest, Src)
    /\ Resolvable(Dest, Src)

\* An instruction the specification accepts: implemented opcode, two
\* operands, legal pair, Memory operands declared, a Memory source holding a
\* non-zero value when the program is loaded.
LegalInstruction(instr) ==
    /\ instr.opcode \in {"Mov", "Add", "Sub"}
    /\ Len(instr.operands) = 2
    /\ LegalPair(instr.operands[1], instr.operands[2])
    /\ \A i \in 1..2 : instr.operands[i].kind = "Memory" =>
            instr.operands[i].label \in DOMAIN DataSection \cup DOMAIN BssSection
    /\ instr.operands[2].kind = "Memory" =>
            /\ instr.operands[2].label \in DOMAIN DataSection
            /\ DataSection[instr.operands[2].label].v # 0

LegalProgram == \A i \in DOMAIN text_section : LegalInstruction(text_section[i])

(***************************************************************************)
(* Claims.                                                                 *)
(***************************************************************************)
\* C1: when run() is called on a new CPU whose text section has n >= 1
\* instructions, the instructions fetched are those at indices 0, 1, 2, ... in
\* that order, each once, and a run that returns has fetched all n of them.
C1_RunFetchesEachInOrder ==
    (OnlyRun /\ Len(text_section) >= 1) =>
        /\ \A k \in DOMAIN fetched : fetched[k] = k - 1
        /\ (RunOver /\ mode = "idle") => Len(fetched) = Len(text_section)

\* C2: run() on a program of legal, implemented instructions over declared
\* and initialized memory never faults, and when it is over the program
\* counter equals the instruction count.
C2_LegalRunHaltsNormally ==
    (OnlyRun /\ LegalProgram) =>
        /\ mode # "panicked"
        /\ RunOver => program_counter = Len(text_section)

\* C3: when run() of the end-to-end program is over, AX = 300, BX = 10,
\* CX = 290 and the cell labelled result holds 290.
C3_EndToEndResult ==
    (RunOver /\ text_section = EndToEnd) =>
        /\ U16(registers["AX"]) = 300
        /\ U16(registers["BX"]) = 10
        /\ U16(registers["CX"]) = 290
        /\ Cell(data_section, bss_section, "result").v = 290

\* C4: in every state each 16-bit register holds the low two lanes of its
\* 32-bit counterpart.
C4_NarrowAliasesWide ==
    \A r \in Reg16 :
        registers[r].lanes = LanesTo(registers[Extended(r)].lanes, 2)

\* C5: after Mov D,S with D and S different registers, S holds exactly what
\* it held before the instruction.
C5_RegisterMoveKeepsSource ==
    (/\ DecodedBinary("Mov")
     /\ Dest.kind = "Register" /\ Src.kind = "Register"
     /\ Dest.reg # Src.reg)
        => registers[Src.reg] = before.registers[Src.reg]

\* C6: after Mov [L],R with L declared, cell L holds the value R had, at the
\* cell's declared width, and R is unchanged.
C6_StoreWritesCell ==
    (/\ DecodedBinary("Mov")
     /\ Dest.kind = "Memory" /\ Src.kind = "Register"
     /\ Declared(data_section, bss_section, Dest.label))
        => /\ LocationLanes(Dest) =
                  LanesTo(before.registers[Src.reg].lanes, Len(LocationLanes(Dest)))
           /\ registers[Src.reg] = before.registers[Src.reg]

\* C7: after Add D,S or Sub D,S with a legal operand pair, D holds the ALU
\* result (old D + S or old D - S, modulo 2^32) at D's native width.
C7_ArithmeticWritesBack ==
    DecodedArithmetic =>
        LocationLanes(Dest) = LanesTo(AluOutcome.result, Len(LocationLanes(Dest)))

\* C8: an Add or Sub whose 32-bit result wraps sets the overflow flag, leaves
\* the wrapped result in the destination, and the run goes on.
C8_OverflowWrapsAndSetsFlag ==
    (DecodedArithmetic /\ AluOutcome.overflow) =>
        /\ flags.overflow = TRUE
        /\ LocationLanes(Dest) = LanesTo(AluOutcome.result, Len(LocationLanes(Dest)))
        /\ mode # "panicked"

\* C9: a decoded Mov, Add or Sub with a Memory operand whose label is in
\* neither section ends the run at that instruction.
C9_UndeclaredLabelIsFatal ==
    (/\ Decoded
     /\ instruction.opcode \in {"Mov", "Add", "Sub"}
     /\ \E i \in DOMAIN instruction.operands :
            /\ instruction.operands[i].kind = "Memory"
            /\ ~Declared(data_section, bss_section, instruction.operands[i].label))
        => mode = "panicked"

\* A Mov R,[L] has been decoded where L is a data-section cell that held zero
\* and that no instruction of the run has written.
DecodedReadOfZeroCell ==
    /\ DecodedBinary("Mov")
    /\ Dest.kind = "Register" /\ Src.kind = "Memory"
    /\ Src.label \in DOMAIN before.data_section
    /\ before.data_section[Src.label].v = 0
    /\ Src.label \notin written

\* C10: Mov R,[L] on a data-section cell L that holds zero and has not been
\* written ends the run with the use-of-uninitialized fault, and no register
\* is modified.
C10_ReadOfZeroCellIsFatal ==
    DecodedReadOfZeroCell =>
        /\ mode = "panicked"
        /\ fault = "uninitialized"
        /\ registers = before.registers

\* C10 witness: the read was decoded when its register held a non-zero value,
\* and the run ended there.
C10_Witness ==
    /\ DecodedReadOfZeroCell
    /\ before.registers[Dest.reg] # ZeroOf(Dest.reg)
    /\ mode = "panicked"

(***************************************************************************)
(* Memory cells that a Mov has written.                                    *)
(***************************************************************************)
\* A Mov R,[L] has been decoded where L is a data-section cell that an
\* earlier Mov [L],src of the run wrote.
DecodedReadOfWrittenCell ==
    /\ DecodedBinary("Mov")
    /\ Dest.kind = "Register" /\ Src.kind = "Memory"
    /\ Src.label \in DOMAIN before.data_section
    /\ Src.label \in written

\* C11: once a data-section cell L has been written by a Mov [L],src, with
\* any value, zero included, a later Mov R,[L] reads it without error.
C11_WrittenCellIsReadable ==
    DecodedReadOfWrittenCell => mode # "panicked" /\ fault = ""

\* A Mov [L],src has been decoded where L is declared in the uninitialized
\* section only and src is an immediate or a register.
DecodedWriteOfBssLabel ==
    /\ DecodedBinary("Mov")
    /\ Dest.kind = "Memory" /\ Src.kind \in {"Immediate", "Register"}
    /\ Dest.label \in DOMAIN bss_section
    /\ Dest.label \notin DOMAIN before.data_section

\* C12: Mov [L],Immediate(v) and Mov [L],R on a label declared only in the
\* uninitialized section complete without a fault, and afterwards cell L
\* holds the written value at the cell's declared width.
C12_BssLabelIsWritable ==
    DecodedWriteOfBssLabel =>
        /\ mode # "panicked" /\ fault = ""
        /\ CellLanes(Cell(data_section, bss_section, Dest.label)) =
               LanesTo(OperandLanes(Src, before.registers, before.data_section,
                                    bss_section),
                       WidthOf(bss_section[Dest.label].w))

(***************************************************************************)
(* Moves into and between registers.                                       *)
(***************************************************************************)
\* A Mov R,src has been decoded where R is a 16-bit register and src is a
\* Dword immediate or a declared Dword data cell that holds a non-zero value.
DecodedDwordIntoNarrow ==
    /\ DecodedBinary("Mov")
    /\ Dest.kind = "Register" /\ Dest.reg \in Reg16
    /\ \/ Src.kind = "Immediate" /\ Src.data.w = "Dword"
       \/ /\ Src.kind = "Memory"
          /\ Src.label \in DOMAIN before.data_section
          /\ before.data_section[Src.label].w = "Dword"
          /\ before.data_section[Src.label].v # 0

\* C13: moving a Dword value v into a 16-bit register R, from an immediate or
\* from a non-zero Dword cell, leaves R holding v mod 2^16 and does not end
\* the run.
C13_DwordIntoNarrowTruncates ==
    DecodedDwordIntoNarrow =>
        /\ mode # "panicked" /\ fault = ""
        /\ registers[Dest.reg].lanes =
               LanesTo(OperandLanes(Src, before.registers, before.data_section,
                                    bss_section), 2)

\* A Mov R,R has been decoded: both operands name the same register.
DecodedSelfMove ==
    /\ DecodedBinary("Mov")
    /\ Dest.kind = "Register" /\ Src.kind = "Register"
    /\ Dest.reg = Src.reg

\* C14: a self-move Mov R,R leaves every register, every memory cell and
\* every flag unchanged, raises no error, and leaves the run going with the
\* program counter on the next instruction.
C14_SelfMoveChangesNothing ==
    DecodedSelfMove =>
        /\ registers = before.registers
        /\ data_section = before.data_section
        /\ bss_section = BssSection
        /\ flags = before.flags
        /\ mode # "panicked" /\ fault = ""
        /\ program_counter = before.program_counter + 1

\* C14 witness: the self-move was decoded when its register held a non-zero
\* value, and the run went on.
C14_Witness ==
    /\ DecodedSelfMove
    /\ before.registers[Dest.reg] # ZeroOf(Dest.reg)
    /\ mode # "panicked"

(***************************************************************************)
(* Malformed instructions: operand count, addressing mode, opcode.         *)
(***************************************************************************)
\* The opcodes the specification gives an operand count of two.
Binary == {"Mov", "Add", "Sub"}

\* A Mov, Add or Sub has been decoded whose operand list does not have
\* exactly two operands.
DecodedWrongArity ==
    /\ Decoded
    /\ instruction.opcode \in Binary
    /\ Len(instruction.operands) # 2

\* A Mov, Add or Sub with two operands has been decoded whose operand-kind
\* pair is Memory/Memory or has an Immediate destination.
DecodedIllegalAddressing ==
    /\ Decoded
    /\ instruction.opcode \in Binary
    /\ Len(instruction.operands) = 2
    /\ ~LegalPair(Dest, Src)

\* C15: a Mov, Add or Sub with a wrong operand count or an illegal addressing
\* mode leaves every register, every memory cell and every flag exactly as it
\* was before the instruction.
C15_MalformedChangesNothing ==
    (DecodedWrongArity \/ DecodedIllegalAddressing) =>
        /\ registers = before.registers
        /\ data_section = before.data_section
        /\ bss_section = BssSection
        /\ flags = before.flags

\* C16: a Mov, Add or Sub whose operand-kind pair is Memory/Memory or has an
\* Immediate destination is fatal: the run ends at that instruction.
C16_IllegalAddressingIsFatal ==
    DecodedIllegalAddressing => mode = "panicked"

\* C17: a Mov, Add or Sub whose operand list does not have exactly two
\* operands is fatal with a wrong-arity cause: the run ends at that
\* instruction, which is not executed using its first two operands.
C17_WrongArityIsFatal ==
    DecodedWrongArity =>
        /\ mode = "panicked"
        /\ fault = "wrong_arity"
        /\ registers = before.registers
        /\ data_section = before.data_section

\* An instruction has been decoded whose opcode execute() has no arm for.
DecodedUnimplemented ==
    Decoded /\ instruction.opcode \notin Binary \cup {"Syscall"}

\* C18: executing an instruction whose opcode is outside Mov, Add, Sub and
\* Syscall fails the run with an opcode-not-implemented error; the
\* instructions after it are not executed.
C18_UnimplementedOpcodeIsFatal ==
    DecodedUnimplemented =>
        /\ mode = "panicked"
        /\ fault = "opcode_not_implemented"

(***************************************************************************)
(* The program counter.                                                    *)
(***************************************************************************)
\* C19: an execute() whose fetch finds the counter below the instruction
\* count advances the counter by exactly 1, whatever instruction is then
\* decoded (mov, add, sub, unimplemented, well-formed or not); an execute()
\* whose fetch finds the counter at or beyond the instruction count returns
\* no instruction and leaves the counter unchanged.
C19_CounterAdvancesOnFetchOnly ==
    last = "execute" =>
        /\ before.program_counter < Len(text_section) =>
               program_counter = before.program_counter + 1
        /\ instruction # NoInstr =>
               /\ before.program_counter < Len(text_section)
               /\ instruction = At(text_section, program_counter)
        /\ before.program_counter >= Len(text_section) =>
               /\ program_counter = before.program_counter
               /\ instruction = NoInstr
               /\ fault = ""

\* C19 witness: the second fetch of a run returned a Mov that changed a
\* register, and the counter stands one beyond where that fetch found it.
C19_Witness ==
    /\ Decoded
    /\ instruction.opcode = "Mov"
    /\ registers # before.registers
    /\ before.program_counter = 1
    /\ program_counter = 2

\* A Mov EXX,XX has been decoded, for one of the four families.
DecodedWidening ==
    /\ DecodedBinary("Mov")
    /\ Dest.kind = "Register" /\ Src.kind = "Register"
    /\ Src.reg \in Reg16 /\ Dest.reg = Extended(Src.reg)

\* A Mov XX,EXX has been decoded, for one of the four families.
DecodedNarrowing ==
    /\ DecodedBinary("Mov")
    /\ Dest.kind = "Register" /\ Src.kind = "Register"
    /\ Dest.reg \in Reg16 /\ Src.reg = Extended(Dest.reg)

\* C20: Mov EXX,XX sets the low two lanes of EXX to the lanes XX held before
\* the move and leaves the high two lanes of EXX unchanged; Mov XX,EXX sets
\* XX to the low two lanes EXX held before the move.
C20_FamilyMovesCopyLowLanes ==
    /\ DecodedWidening =>
           registers[Dest.reg].lanes =
               << before.registers[Src.reg].lanes[1], before.registers[Src.reg].lanes[2],
                  before.registers[Dest.reg].lanes[3], before.registers[Dest.reg].lanes[4] >>
    /\ DecodedNarrowing =>
           registers[Dest.reg].lanes =
               << before.registers[Src.reg].lanes[1], before.registers[Src.reg].lanes[2] >>

\* A Mov R,src has been decoded where R is a 32-bit register and src is an
\* immediate or a data cell that holds a non-zero value.
DecodedLoadIntoWide ==
    /\ DecodedBinary("Mov")
    /\ Dest.kind = "Register" /\ Dest.reg \in Reg32
    /\ \/ Src.kind = "Immediate"
       \/ /\ Src.kind = "Memory"
          /\ Src.label \in DOMAIN before.data_section
          /\ before.data_section[Src.label].v # 0

\* The Data value a Mov reads from an immediate or a memory operand.
SourceData(op) ==
    IF op.kind = "Immediate" THEN op.data ELSE before.data_section[op.label]

\* C21: a Mov into a 32-bit register R from an immediate or an initialized
\* memory cell writes the source's little-endian bytes to the lowest lanes of
\* R, one for a Byte, two for a Word, four for a Dword, and every lane above
\* them keeps the value it had.
C21_WideLoadWritesLowLanes ==
    DecodedLoadIntoWide =>
        /\ mode # "panicked" /\ fault = ""
        /\ LET n == WidthOf(SourceData(Src).w)
               bytes == to_le_bytes(SourceData(Src).v, n)
           IN  \A i \in 1..4 :
                   registers[Dest.reg].lanes[i] =
                       IF i <= n THEN bytes[i] ELSE before.registers[Dest.reg].lanes[i]

\* C21 witness: a Byte was loaded into a 32-bit register whose four lanes
\* were all non-zero, and the three lanes above it are still non-zero.
C21_Witness ==
    /\ DecodedLoadIntoWide
    /\ SourceData(Src).w = "Byte"
    /\ \A i \in 1..4 : before.registers[Dest.reg].lanes[i] # 0
    /\ \A i \in 2..4 : registers[Dest.reg].lanes[i] # 0
    /\ registers[Dest.reg].lanes[1] # before.registers[Dest.reg].lanes[1]

\* A Mov [L],Immediate(v) has been decoded where L is a data-section cell.
DecodedWriteOfDataCell ==
    /\ DecodedBinary("Mov")
    /\ Dest.kind = "Memory" /\ Src.kind = "Immediate"
    /\ Dest.label \in DOMAIN before.data_section

\* The value fits the width: below 2^8 for a Byte, below 2^16 for a Word.
Fits(cell) ==
    /\ cell.w = "Byte" => cell.v \in 0..255
    /\ cell.w = "Word" => cell.v \in 0..65535
    /\ cell.v >= 0

\* C22: Mov [L],Immediate(v) on a data-section cell L raises no fault and
\* keeps the cell's width tag; the cell's new value is v mod 2^(8*w), w the
\* cell's declared width in bytes; every cell's value fits its width.
C22_CellWriteCastsToCellWidth ==
    /\ \A l \in DOMAIN data_section : Fits(data_section[l])
    /\ DecodedWriteOfDataCell =>
           /\ mode # "panicked" /\ fault = ""
           /\ data_section[Dest.label].w = before.data_section[Dest.label].w
           /\ data_section[Dest.label].v =
                  CASE data_section[Dest.label].w = "Byte" -> Src.data.v % 256
                    [] data_section[Dest.label].w = "Word" -> Src.data.v % 65536
                    [] data_section[Dest.label].w = "Dword" -> Src.data.v

\* C22 witness: a Dword immediate was written into the Byte cell and cut to
\* its low byte.
C22_Witness ==
    /\ DecodedWriteOfDataCell
    /\ Src.data.w = "Dword"
    /\ before.data_section[Dest.label].w = "Byte"
    /\ data_section[Dest.label] = Byte(120)

(***************************************************************************)
(* State no instruction writes: flags, text section, register keys.        *)
(***************************************************************************)
\* An instruction other than Add and Sub has been decoded.
DecodedOtherThanArithmetic ==
    Decoded /\ instruction.opcode \notin {"Add", "Sub"}

\* C23: an instruction other than Add and Sub (a Mov in any addressing mode,
\* an unimplemented opcode, a rejected instruction) leaves the six flags at
\* the values they had before the instruction.
C23_OnlyArithmeticChangesFlags ==
    DecodedOtherThanArithmetic => flags = before.flags

\* C23 witness: a Mov changed a register in a run that had written a memory
\* cell, and the run went on.
C23_Witness ==
    /\ DecodedBinary("Mov")
    /\ registers # before.registers
    /\ written # {}
    /\ mode # "panicked"

\* C24: the text section is read-only during execution: no step of a run
\* changes its length or the opcode or the operands of any instruction, so
\* after any number of execute() steps it is what was loaded.
C24_TextSectionIsReadOnly == [][text_section' = text_section]_vars

\* C24 witness: two instructions of a three-instruction program have been
\* fetched and decoded, and one of them changed a register or a cell.
C24_Witness ==
    /\ Decoded
    /\ Len(fetched) >= 2
    /\ Len(text_section) = 3
    /\ \/ \E r \in RegNames : registers[r] # ZeroOf(r)
       \/ written # {}

\* C25: a newly constructed CPU has the eight registers with every lane zero,
\* program_counter 0 and every flag false; and in every reachable state the
\* register file has exactly the keys AX, BX, CX, DX, EAX, EBX, ECX, EDX.
C25_NewCpuIsZeroAndKeysStay ==
    /\ DOMAIN registers = {"AX", "BX", "CX", "DX", "EAX", "EBX", "ECX", "EDX"}
    /\ last = "new" =>
           /\ \A r \in {"AX", "BX", "CX", "DX"} : registers[r] = Variant(r, <<0, 0>>)
           /\ \A r \in {"EAX", "EBX", "ECX", "EDX"} : registers[r] = Variant(r, <<0, 0, 0, 0>>)
           /\ program_counter = 0
           /\ \A f \in DOMAIN flags : flags[f] = FALSE
           /\ DOMAIN flags = {"carry", "zero", "interrupt", "sign", "overflow", "parity"}

\* C25 witness: a run has moved one register into another and loaded a
\* third, and the register file is no longer what the constructor left.
C25_Witness ==
    /\ last = "execute"
    /\ \E r \in RegNames : registers[r].tag # r
    /\ \E r \in RegNames : \E i \in DOMAIN registers[r].lanes : registers[r].lanes[i] # 0
    /\ DOMAIN registers = RegNames

(***************************************************************************)
(* Moves between registers of different families.                          *)
(***************************************************************************)
\* A Mov D,S has been decoded where D and S are registers of different
\* families.
DecodedUnrelatedMove ==
    /\ DecodedBinary("Mov")
    /\ Dest.kind = "Register" /\ Src.kind = "Register"
    /\ ~Related(Dest.reg, Src.reg)

\* C27: Mov D,S between registers of different families writes D: with equal
\* widths D ends with S's prior lanes; a 32-bit D gets S's two lanes as its
\* low lanes and keeps its high lanes; a 16-bit D gets the low two lanes of a
\* 32-bit S.
C27_UnrelatedMoveWritesDestination ==
    DecodedUnrelatedMove =>
        LET d == registers[Dest.reg].lanes
            d0 == before.registers[Dest.reg].lanes
            s0 == before.registers[Src.reg].lanes
        IN  CASE Len(d0) = Len(s0) -> d = s0
              [] Len(d0) = 4 /\ Len(s0) = 2 -> d = <<s0[1], s0[2], d0[3], d0[4]>>
              [] Len(d0) = 2 /\ Len(s0) = 4 -> d = <<s0[1], s0[2]>>

(***************************************************************************)
(* A Byte into a 16-bit register.                                          *)
(***************************************************************************)
\* A Mov R,[L] has been decoded where R is a 16-bit register and L is a data
\* cell that holds a non-zero Byte.
DecodedByteCellIntoNarrow ==
    /\ DecodedBinary("Mov")
    /\ Dest.kind = "Register" /\ Dest.reg \in Reg16
    /\ Src.kind = "Memory"
    /\ Src.label \in DOMAIN before.data_section
    /\ before.data_section[Src.label].w = "Byte"
    /\ before.data_section[Src.label].v # 0

\* C28: Mov R,[L], for a 16-bit register R and a data cell L holding a
\* non-zero Byte(v), leaves the registers as Mov R,Immediate(Byte(v)) leaves
\* them from the same starting state: v is in R's low lane, and R's high lane
\* is what it was.
C28_ByteCellLoadsLikeImmediate ==
    DecodedByteCellIntoNarrow =>
        /\ registers =
               MovRegisterImmediate(before.registers, Dest.reg,
                                    before.data_section[Src.label])
        /\ registers[Dest.reg].lanes =
               << before.data_section[Src.label].v, before.registers[Dest.reg].lanes[2] >>

\* C29: in every reachable state the value stored in the register map under
\* each key K is the Register variant named K.
C29_KeyHoldsOwnVariant ==
    \A k \in RegNames : registers[k].tag = k

\* C30: every index fetch() uses to read the text section is below the text
\* section's length.
C30_FetchIndexInBounds ==
    \A i \in DOMAIN fetched : fetched[i] < Len(text_section)

(***************************************************************************)
(* Two register moves in a row.                                            *)
(***************************************************************************)
\* The instruction the execute() before the last one fetched.
Previous ==
    IF Len(fetched) >= 2 THEN At(text_section, fetched[Len(fetched) - 1]) ELSE NoInstr

\* Mov B,A and then Mov C,B have been decoded, one right after the other,
\* for three distinct registers A, B, C.
DecodedChain ==
    /\ DecodedBinary("Mov")
    /\ Dest.kind = "Register" /\ Src.kind = "Register"
    /\ Previous.opcode = "Mov" /\ Len(Previous.operands) = 2
    /\ Previous.operands[1].kind = "Register" /\ Previous.operands[2].kind = "Register"
    /\ Previous.operands[1].reg = Src.reg
    /\ Cardinality({Previous.operands[2].reg, Src.reg, Dest.reg}) = 3

\* C31: after Mov B,A and then Mov C,B, for distinct registers A, B, C,
\* register C holds in its low lanes the value A had before the first move,
\* as far as the narrowest of the three registers carries it.
C31_MovesCompose ==
    DecodedChain =>
        LET a0 == before.earlier[Previous.operands[2].reg].lanes
            n == IF Len(a0) = 2 \/ Src.reg \in Reg16 \/ Dest.reg \in Reg16 THEN 2 ELSE 4
        IN  \A i \in 1..n : registers[Dest.reg].lanes[i] = a0[i]

(***************************************************************************)
(* What a Mov leaves alone.                                                *)
(***************************************************************************)
\* A Mov D,S has been decoded where D and S are distinct registers.
DecodedRegisterMove ==
    /\ DecodedBinary("Mov")
    /\ Dest.kind = "Register" /\ Src.kind = "Register"
    /\ Dest.reg # Src.reg

\* C32: a register-to-register Mov D,S, D and S distinct, changes no register
\* other than D and S, no memory cell and no flag.
C32_RegisterMoveTouchesOnlyItsPair ==
    DecodedRegisterMove =>
        /\ \A r \in RegNames \ {Dest.reg, Src.reg} : registers[r] = before.registers[r]
        /\ data_section = before.data_section
        /\ bss_section = BssSection
        /\ flags = before.flags

\* A Mov R,Immediate(v) or a Mov R,[L] has been decoded.
DecodedLoad ==
    /\ DecodedBinary("Mov")
    /\ Dest.kind = "Register" /\ Src.kind \in {"Immediate", "Memory"}

\* A Mov [L],Immediate(v) has been decoded.
DecodedStoreImmediate ==
    /\ DecodedBinary("Mov")
    /\ Dest.kind = "Memory" /\ Src.kind = "Immediate"

\* C33: Mov R,Immediate(v) and Mov R,[L] change no register other than R and
\* no memory cell of either section; Mov [L],Immediate(v) changes no register
\* and no memory cell other than L.
C33_LoadAndStoreTouchOnlyTheirTarget ==
    /\ DecodedLoad =>
           /\ \A r \in RegNames \ {Dest.reg} : registers[r] = before.registers[r]
           /\ data_section = before.data_section
           /\ bss_section = BssSection
    /\ DecodedStoreImmediate =>
           /\ registers = before.registers
           /\ DOMAIN data_section = DOMAIN before.data_section
           /\ \A l \in DOMAIN data_section \ {Dest.label} :
                  data_section[l] = before.data_section[l]
           /\ DOMAIN bss_section = DOMAIN BssSection
           /\ \A l \in DOMAIN bss_section \ {Dest.label} : bss_section[l] = BssSection[l]

\* C33 witness: a load changed its register in a run whose instruction
\* before it had given a memory cell a new value.
C33_Witness ==
    /\ DecodedLoad
    /\ registers[Dest.reg] # before.registers[Dest.reg]
    /\ \E l \in written : data_section[l] # DataSection[l]
    /\ mode # "panicked"

(***************************************************************************)
(* The program counter over a whole run, and stop().                       *)
(***************************************************************************)
\* C34: in every reachable state 0 <= program_counter <= text_section.len(),
\* and no step (an execute() with its fetch, a call or an iteration of run(),
\* a stop()) decreases program_counter.
C34_CounterBoundedAndMonotone ==
    /\ [](0 <= program_counter /\ program_counter <= Len(text_section))
    /\ [][program_counter' >= program_counter]_vars

\* C34 witness: stop() was called after one instruction of a three-
\* instruction program had been fetched, and the counter stands at 3.
C34_Witness ==
    /\ last = "stop"
    /\ Len(text_section) = 3
    /\ fetched = <<1>>
    /\ program_counter = 3

\* C35: stop() leaves program_counter equal to the instruction count; from
\* then on an execute(), alone or as the iteration of a run(), fetches no
\* instruction and changes no register, memory cell, flag or the counter,
\* and the run() returns after that one iteration.
C35_StopEndsExecution ==
    /\ [][last' = "stop" => program_counter' = Len(text_section)]_vars
    /\ [][(program_counter = Len(text_section) /\ mode # "panicked") =>
              /\ program_counter' = program_counter
              /\ registers' = registers
              /\ data_section' = data_section
              /\ bss_section' = bss_section
              /\ flags' = flags
              /\ fetched' = fetched
              /\ fault' = ""
              /\ last' = "execute" => instruction' = NoInstr
              /\ mode = "running" => mode' = "idle"]_vars

\* C35 witness: after one instruction of a three-instruction program and a
\* stop(), an execute() has fetched nothing and returned.
C35_Witness ==
    /\ last = "execute"
    /\ instruction = NoInstr
    /\ Len(text_section) = 3
    /\ fetched = <<1>>
    /\ program_counter = 3
    /\ mode = "idle"

=============================================================================
